---- MODULE Spec2Model ----
(***************************************************************************)
(* PyRPG: the tile world and the axis-separated collision resolution of    *)
(* pyrpg.py, and the frame-count driven Animation of pygame_tools.py.      *)
(***************************************************************************)
EXTENDS Integers, Sequences, FiniteSets, TLC

(* ------------------------------ bounds ------------------------------- *)
\* The boards drawn have MaxRows rows of MaxCols tile ids.
MaxRows == 2
MaxCols == 2
\* Velocity components are k * Speed for k in -MaxSteps..MaxSteps.
MaxSteps == 3
\* Hand-built collision lists have at most MaxObst rectangles, each shifted
\* off the tile grid by at most MaxShift pixels and at most MaxWide cells wide.
MaxObst == 2
MaxShift == 1
MaxWide == 2
\* Animations have at most MaxFrames frames of 1..MaxDuration game frames
\* each and are given at most MaxReps repetitions.
MaxFrames == 2
MaxDuration == 2
MaxReps == 2
\* World(...) is given boards of at most MaxGridRows rows of at most
\* MaxGridCols cells, of the tile ids 0..MaxTileId.
MaxGridRows == 2
MaxGridCols == 2
MaxTileId == 1
\* run() is followed for MaxIters iterations of at most MaxEvents events each;
\* a MenuScreen has at most MaxButtons buttons.
MaxIters == 3
MaxEvents == 1
MaxButtons == 2

(* ------------------------- program constants ------------------------- *)
\* RPG.__init__: self.cell_size = Point(16, 4)
CellW == 16
CellH == 4
\* Player.__init__: self.rect = Rect(pos, (5, 4))
PlayerW == 5
PlayerH == 4
\* RPG.keyboard_input: velocity.x -= 3, velocity.y += 3, ...
Speed == 3

VARIABLES
    collision_list,   \* World.collision_list, the list handed to Player.update
    rect,             \* Player.rect
    velocity,         \* Player.velocity
    facing_right,     \* Player.facing_right
    move_pc,          \* "start" before the call of Player.update, "done" after
    start,            \* the rect, velocity and facing flag the call started from
    rect_h,           \* Player.rect after the horizontal loop (line 46)
    n_files,          \* len(glob(glob_path)): the files the glob path matches
    arg_frame_data,   \* the frame_data argument of Animation(...)
    arg_repititions,  \* the repititions argument of Animation(...)
    anim_pc,          \* "new" before Animation(...), then "ok" or the error raised
    anim,             \* the Animation object's attributes
    prev,             \* the attributes before the last call
    last_op,          \* the last call: "none", "init", "update" or "reset"
    updates,          \* update() calls since construction
    since,            \* update() calls since construction or the last reset()
    reset_called,     \* reset() was called since construction
    arg_board,        \* World.board, as read from the file at board_path
    arg_tile_dict,    \* the tile_dict argument of World(...)
    arg_cell_size,    \* the cell_size argument of World(...)
    world_pc,         \* "new" before World(...), then "ok" or the error raised
    world,            \* the World object's attributes
    arg_window_size,  \* the window_size argument of GameScreen(...)
    game,             \* the GameScreen object's attributes
    run_pc,           \* the position of run(), or the exception that ended it
    iteration,        \* iterations of the loop of run() started so far
    log,              \* the calls made in the current iteration, in order
    presented,        \* the scaled blits made in the current iteration
    stopped_at,       \* the iteration in which running was cleared, 0 if none
    keys,             \* the keys the last keyboard_input() found pressed
    prev_keys,        \* those the keyboard_input() before it found pressed
    drawn,            \* the rect Player.draw last drew the player at
    last_vx,          \* the last non-zero velocity.x Player.update consumed
    buttons,          \* MenuScreen.buttons
    button_index,     \* MenuScreen.button_index
    activated         \* the indices of the buttons called in the last event loop

move_vars == <<collision_list, rect, velocity, facing_right, move_pc, start, rect_h>>
anim_vars == <<n_files, arg_frame_data, arg_repititions, anim_pc, anim, prev,
               last_op, updates, since, reset_called>>
world_vars == <<arg_board, arg_tile_dict, arg_cell_size, world_pc, world>>
loop_vars == <<arg_window_size, game, run_pc, iteration, log, presented,
               stopped_at, keys, prev_keys, drawn, last_vx>>
menu_vars == <<buttons, button_index, activated>>
vars == <<move_vars, anim_vars, world_vars, loop_vars, menu_vars>>

(* ------------------------- pygame_tools.Point ------------------------ *)
Point(x, y) == [x |-> x, y |-> y]

(* ----------------------------- pygame.Rect --------------------------- *)
Rect(x, y, w, h) == [x |-> x, y |-> y, w |-> w, h |-> h]
Left(r) == r.x
Right(r) == r.x + r.w
Top(r) == r.y
Bottom(r) == r.y + r.h
\* rect.right = v, rect.left = v, rect.top = v, rect.bottom = v
SetRight(r, v) == [r EXCEPT !.x = v - r.w]
SetLeft(r, v) == [r EXCEPT !.x = v]
SetTop(r, v) == [r EXCEPT !.y = v]
SetBottom(r, v) == [r EXCEPT !.y = v - r.h]

\* Rect.colliderect: the two rectangles share area (touching edges do not).
CollideRect(a, b) ==
    /\ Left(a) < Right(b)
    /\ Left(b) < Right(a)
    /\ Top(a) < Bottom(b)
    /\ Top(b) < Bottom(a)

\* Rect.collidelistall: the indices of the rectangles of cl that collide with
\* r, in increasing order.
CollideListAll(r, cl) ==
    SelectSeq([i \in 1..Len(cl) |-> i], LAMBDA i : CollideRect(r, cl[i]))

(* ------------------------------- World ------------------------------- *)
NoAsset == "None"
\* RPG.__init__: {0: None, 1: pygame.image.load('assets/grass.png')}
TileDict == (0 :> NoAsset) @@ (1 :> "grass")
CellSize == Point(CellW, CellH)

\* The inner loop of World.__init__ over the cells j.. of row i (i, j count
\* from 0 as enumerate does; row[j + 1] is the j-th cell).
RECURSIVE RowRects(_, _, _, _, _)
RowRects(row, i, j, tile_dict, cell_size) ==
    IF j >= Len(row) THEN <<>>
    ELSE (IF tile_dict[row[j + 1]] = NoAsset
          THEN <<Rect(j * cell_size.x, i * cell_size.y, cell_size.x, cell_size.y)>>
          ELSE <<>>)
         \o RowRects(row, i, j + 1, tile_dict, cell_size)

\* The outer loop of World.__init__ over the rows i.. of the board.
RECURSIVE BoardRects(_, _, _, _)
BoardRects(board, i, tile_dict, cell_size) ==
    IF i >= Len(board) THEN <<>>
    ELSE RowRects(board[i + 1], i, 0, tile_dict, cell_size)
         \o BoardRects(board, i + 1, tile_dict, cell_size)

\* World.collision_list after construction.
WorldCollisionList(board, tile_dict, cell_size) ==
    BoardRects(board, 0, tile_dict, cell_size)

\* Mutant of Lookup: tile_dict.get(cell), which yields None for a missing key.
LookupGet(tile_dict, cell) ==
    IF cell \in DOMAIN tile_dict
    THEN [error |-> "none", value |-> tile_dict[cell]]
    ELSE [error |-> "none", value |-> NoAsset]

\* self.tile_dict[cell] (line 16): the value, or KeyError for a missing key.
Lookup(tile_dict, cell) ==
    IF cell \in DOMAIN tile_dict
    THEN [error |-> "none", value |-> tile_dict[cell]]
    ELSE [error |-> "KeyError"]

\* Mutant of CellRect: row and column exchanged.
CellRectTransposed(i, j, cell_size) ==
    Rect(i * cell_size.x, j * cell_size.y, cell_size.x, cell_size.y)

\* Line 17: Rect((j * self.cell_size.x, i * self.cell_size.y), cell_size).
CellRect(i, j, cell_size) ==
    Rect(j * cell_size.x, i * cell_size.y, cell_size.x, cell_size.y)

\* Lines 14-17 from cell j of row i on (both counted from 0), acc being the
\* collision list so far: the error the lookup raised and the list at that
\* moment, or the complete list.
RECURSIVE WorldInitLoop(_, _, _, _, _, _)
WorldInitLoop(board, i, j, tile_dict, cell_size, acc) ==
    IF i >= Len(board) THEN [error |-> "none", collision_list |-> acc]
    ELSE IF j >= Len(board[i + 1])
         THEN WorldInitLoop(board, i + 1, 0, tile_dict, cell_size, acc)
         ELSE LET found == Lookup(tile_dict, board[i + 1][j + 1])
              IN  IF found.error # "none"
                  THEN [error |-> found.error, collision_list |-> acc]
                  ELSE WorldInitLoop(board, i, j + 1, tile_dict, cell_size,
                           IF found.value = NoAsset
                           THEN Append(acc, CellRect(i, j, cell_size))
                           ELSE acc)

\* World.__init__ (lines 8-17): the error raised, or the object's attributes.
WorldNew(board, tile_dict, cell_size) ==
    LET built == WorldInitLoop(board, 0, 0, tile_dict, cell_size, <<>>)
    IN  IF built.error # "none" THEN [error |-> built.error]
        ELSE [error |-> "none",
              self |-> [board_path |-> "board_path",
                        tile_dict |-> tile_dict,
                        cell_size |-> cell_size,
                        board |-> board,
                        collision_list |-> built.collision_list]]

(* ------------------------------- Player ------------------------------ *)
\* Mutant of Facing: the flag is never updated from the velocity.
FacingStale(v, facing) == facing

\* Mutant of Facing: a velocity.x of 0 turns the player right.
FacingZeroRight(v, facing) == v.x >= 0

\* Lines 37-40: the facing flag follows the sign of velocity.x.
Facing(v, facing) ==
    IF v.x > 0 THEN TRUE
    ELSE IF v.x < 0 THEN FALSE
    ELSE facing

\* Mutant of PushX: the two sides exchanged.
PushXSwapped(r, facing, o) ==
    IF facing THEN SetLeft(r, Right(o)) ELSE SetRight(r, Left(o))

\* One iteration of the horizontal loop (lines 43-46).
PushX(r, facing, o) ==
    IF facing THEN SetRight(r, Left(o)) ELSE SetLeft(r, Right(o))

\* Mutant of PushY: the actor's edge is set to the obstacle's same edge.
PushYSameEdge(r, v, o) ==
    IF v.y < 0 THEN SetTop(r, Top(o)) ELSE SetBottom(r, Bottom(o))

\* One iteration of the vertical loop (lines 49-52).
PushY(r, v, o) ==
    IF v.y < 0 THEN SetTop(r, Bottom(o)) ELSE SetBottom(r, Top(o))

\* The horizontal loop over the indices collidelistall returned, in order.
RECURSIVE LoopX(_, _, _, _)
LoopX(r, facing, cl, idx) ==
    IF idx = <<>> THEN r
    ELSE LoopX(PushX(r, facing, cl[Head(idx)]), facing, cl, Tail(idx))

\* The vertical loop over the indices collidelistall returned, in order.
RECURSIVE LoopY(_, _, _, _)
LoopY(r, v, cl, idx) ==
    IF idx = <<>> THEN r
    ELSE LoopY(PushY(r, v, cl[Head(idx)]), v, cl, Tail(idx))

\* Mutant of HorizontalStep: only the first colliding rectangle is handled.
HorizontalStepFirstHit(r, v, facing, cl) ==
    LET moved == [r EXCEPT !.x = r.x + v.x]
        idx == CollideListAll(moved, cl)
    IN  IF idx = <<>> THEN moved ELSE PushX(moved, facing, cl[Head(idx)])

\* Lines 41-46: rect.x += velocity.x, then the horizontal loop.
HorizontalStep(r, v, facing, cl) ==
    LET moved == [r EXCEPT !.x = r.x + v.x]
    IN  LoopX(moved, facing, cl, CollideListAll(moved, cl))

\* Lines 47-52: rect.y += velocity.y, then the vertical loop.
VerticalStep(r, v, cl) ==
    LET moved == [r EXCEPT !.y = r.y + v.y]
    IN  LoopY(moved, v, cl, CollideListAll(moved, cl))

\* Mutant of PlayerUpdate: the velocity is kept at the end of the call.
PlayerUpdateKeepVelocity(r, v, facing, cl) ==
    LET f == Facing(v, facing)
        h == HorizontalStep(r, v, f, cl)
    IN  [rect |-> VerticalStep(h, v, cl),
         rect_h |-> h,
         velocity |-> v,
         facing_right |-> f]

\* Player.update: the player's fields after the call, and the rect between
\* the two loops.
PlayerUpdate(r, v, facing, cl) ==
    LET f == Facing(v, facing)
        h == HorizontalStep(r, v, f, cl)
    IN  [rect |-> VerticalStep(h, v, cl),
         rect_h |-> h,
         velocity |-> Point(0, 0),
         facing_right |-> f]

(* ----------------------------- Animation ---------------------------- *)
\* Python's None, and an int n, as values of one kind (an optional int).
None == <<>>
Some(n) == <<n>>
\* No Animation object exists (before the constructor, or after it raised).
NoObject == [object |-> "none"]

\* Mutant of AnimationLoad: the length check is missing. (Lines 91-94: frames
\* pairs image i with frame_data[i] for each file; frame_data[i] raises
\* IndexError when the files outnumber the durations, self.frames[0] when
\* there is no frame.)
AnimationLoadUnchecked(a, files, frame_data) ==
    IF files > Len(frame_data) THEN [error |-> "IndexError"]
    ELSE LET frames == [i \in 1..files |-> <<i - 1, frame_data[i]>>]
         IN  IF frames = <<>> THEN [error |-> "IndexError"]
             ELSE [error |-> "none",
                   self |-> [glob_path |-> a.glob_path,
                             frame_data |-> a.frame_data,
                             repititions |-> a.repititions,
                             finished |-> a.finished,
                             frames |-> frames,
                             frame_count |-> Len(frames),
                             frame_index |-> 0,
                             frames_until_next |-> frames[1][2]]]

\* Animation.load (lines 88-94), on the attributes a the constructor has set:
\* the error raised, or the attributes after the call. ValueError when the
\* numbers of files and of durations differ; IndexError from self.frames[0]
\* when there is no frame.
AnimationLoad(a, files, frame_data) ==
    IF files # Len(frame_data) THEN [error |-> "ValueError"]
    ELSE LET frames == [i \in 1..files |-> <<i - 1, frame_data[i]>>]
         IN  IF frames = <<>> THEN [error |-> "IndexError"]
             ELSE [error |-> "none",
                   self |-> [glob_path |-> a.glob_path,
                             frame_data |-> a.frame_data,
                             repititions |-> a.repititions,
                             finished |-> a.finished,
                             frames |-> frames,
                             frame_count |-> Len(frames),
                             frame_index |-> 0,
                             frames_until_next |-> frames[1][2]]]

\* Mutant of AnimationNew: finished is never set by the constructor.
AnimationNewUnfinished(files, frame_data, repititions) ==
    AnimationLoad([glob_path |-> "glob_path", frame_data |-> frame_data,
                   repititions |-> repititions, finished |-> FALSE],
                  files, frame_data)

\* Animation.__init__ (lines 50-54).
AnimationNew(files, frame_data, repititions) ==
    AnimationLoad([glob_path |-> "glob_path", frame_data |-> frame_data,
                   repititions |-> repititions,
                   finished |-> (repititions = Some(0))],
                  files, frame_data)

\* Mutant of NextFrame: the repetitions are decremented at every change of
\* frame, not only when the index wraps to 0.
NextFrameEveryFrame(a, t) ==
    LET i == (a.frame_index + 1) % a.frame_count
        b == [a EXCEPT !.frame_index = i,
                       !.frames_until_next = t + a.frames[i + 1][2]]
    IN  IF a.repititions # None
        THEN LET r == a.repititions[1] - 1
             IN  [b EXCEPT !.repititions = Some(r),
                           !.finished = IF r = 0 THEN TRUE ELSE @]
        ELSE b

\* Mutant of NextFrame: the repetitions are tested by truth value, so that
\* None counts as exhausted.
NextFrameTruthy(a, t) ==
    LET i == (a.frame_index + 1) % a.frame_count
        b == [a EXCEPT !.frame_index = i,
                       !.frames_until_next = t + a.frames[i + 1][2]]
    IN  IF i = 0
        THEN IF a.repititions = None \/ a.repititions = Some(0)
             THEN [b EXCEPT !.finished = TRUE]
             ELSE LET r == a.repititions[1] - 1
                  IN  [b EXCEPT !.repititions = Some(r),
                                !.finished = IF r = 0 THEN TRUE ELSE @]
        ELSE b

\* Lines 63-68 of Animation.update, t being the countdown after line 61:
\* the next frame, its duration added to the countdown, and the repetitions
\* decremented when the index wrapped to 0.
NextFrame(a, t) ==
    LET i == (a.frame_index + 1) % a.frame_count
        b == [a EXCEPT !.frame_index = i,
                       !.frames_until_next = t + a.frames[i + 1][2]]
    IN  IF i = 0 /\ a.repititions # None
        THEN LET r == a.repititions[1] - 1
             IN  [b EXCEPT !.repititions = Some(r),
                           !.finished = IF r = 0 THEN TRUE ELSE @]
        ELSE b

\* Mutant of AnimationUpdate: the countdown is tested before it is
\* decremented, so that every frame lasts one update longer.
AnimationUpdateLate(a) ==
    IF a.finished THEN a
    ELSE IF a.frames_until_next = 0
         THEN NextFrame(a, 0)
         ELSE [a EXCEPT !.frames_until_next = @ - 1]

\* Animation.update (lines 60-68).
AnimationUpdate(a) ==
    IF a.finished THEN a
    ELSE LET t == a.frames_until_next - 1
         IN  IF t = 0
             THEN NextFrame(a, t)
             ELSE [a EXCEPT !.frames_until_next = t]

\* Animation.get_surface (line 72): the image of the current frame.
GetSurface(a) == a.frames[a.frame_index + 1][1]

\* Mutant of AnimationReset: the animation is restarted, finished cleared.
AnimationResetRestart(a) ==
    [a EXCEPT !.frame_index = 0, !.frames_until_next = a.frames[1][2],
              !.finished = FALSE]

\* Animation.reset (lines 76-77).
AnimationReset(a) ==
    [a EXCEPT !.frame_index = 0, !.frames_until_next = a.frames[1][2]]

(* ----------------------------- GameScreen ---------------------------- *)
\* Mutant of WindowScaled: every window_size given counts as a scaling.
WindowScaledWhenGiven(window_size, real_window_size) == window_size # None

\* Line 238: bool(window_size) and window_size != real_window_size. A size
\* is a pair, which is true; None is false.
WindowScaled(window_size, real_window_size) ==
    window_size # None /\ window_size # real_window_size

\* GameScreen.__init__ (lines 238-247). The screen handed in is the surface
\* "display"; pygame.Surface(window_size) is a new surface, "canvas".
GameScreenNew(screen, real_window_size, window_size) ==
    LET scaled == WindowScaled(window_size, real_window_size)
    IN  [window_scaled |-> scaled,
         real_screen |-> screen,
         screen |-> IF ~scaled THEN screen ELSE "canvas",
         real_window_size |-> real_window_size,
         window_size |-> IF scaled THEN window_size ELSE real_window_size,
         frame_rate |-> 30,
         running |-> FALSE,
         game_ticks |-> 0]

\* GameScreen.tick (lines 249-253). The reset of game_ticks above
\* 999999999999999999999 is out of the reach of MaxIters iterations.
Tick(g) == [g EXCEPT !.game_ticks = @ + 1]

\* Lines 291-292: the blits the iteration makes between update() and
\* pygame.display.update().
ScaledBlits(g) ==
    IF g.window_scaled
    THEN <<[source |-> g.screen, scaled_to |-> g.real_window_size,
            dest |-> g.real_screen, at |-> <<0, 0>>]>>
    ELSE <<>>

(* ------------------------------- Button ------------------------------ *)
NoAction == "None"
\* Button.__init__ (lines 114-127), of which the action and the clicked flag.
Button(action) == [action |-> action, clicked |-> FALSE]

\* Button.__call__ (lines 140-142) of button k (counted from 1) of the screen
\* s: the action, when there is one, is called, and the button is clicked.
\* The action "stop" clears the running flag of the screen, "noop" has no
\* effect on the screen.
ButtonCall(s, k) ==
    [s EXCEPT !.running = IF s.buttons[k].action = "stop" THEN FALSE ELSE @,
              !.buttons[k].clicked = TRUE,
              !.activated = Append(@, k - 1)]

\* Button.draw (line 131) for every button: MenuScreen.draw_buttons.
DrawButtons(bs) == [k \in 1..Len(bs) |-> [bs[k] EXCEPT !.clicked = FALSE]]

(* ----------------------------- MenuScreen ---------------------------- *)
ArrowKeys == {"K_UP", "K_RIGHT", "K_DOWN", "K_LEFT"}

\* self.buttons[self.button_index](), line 319: Python takes a negative index
\* from the end of the list and raises IndexError out of -len..len-1.
CallIndexed(s) ==
    LET n == Len(s.buttons)
        i == s.button_index
    IN  IF 0 <= i /\ i < n THEN ButtonCall(s, i + 1)
        ELSE IF 0 - n <= i /\ i < 0 THEN ButtonCall(s, n + i + 1)
        ELSE [s EXCEPT !.error = "IndexError"]

\* Mutant of MenuKeyDown: the index stops at the ends instead of wrapping.
MenuKeyDownNoWrap(s, event) ==
    IF event.key \in ArrowKeys
    THEN IF event.key = "K_DOWN" \/ event.key = "K_RIGHT"
         THEN [s EXCEPT !.button_index = @ + 1]
         ELSE [s EXCEPT !.button_index = @ - 1]
    ELSE IF event.key = "K_RETURN" \/ event.key = "K_SPACE"
         THEN CallIndexed(s)
         ELSE s

\* MenuScreen.key_down (lines 308-319).
MenuKeyDown(s, event) ==
    IF event.key \in ArrowKeys
    THEN IF event.key = "K_DOWN" \/ event.key = "K_RIGHT"
         THEN LET i == s.button_index + 1
                  buttons_length == Len(s.buttons)
              IN  IF i >= buttons_length
                  THEN IF buttons_length = 0
                       THEN [s EXCEPT !.button_index = i,
                                      !.error = "ZeroDivisionError"]
                       ELSE [s EXCEPT !.button_index = i % buttons_length]
                  ELSE [s EXCEPT !.button_index = i]
         ELSE LET i == s.button_index - 1
              IN  IF i < 0
                  THEN [s EXCEPT !.button_index = Len(s.buttons) - 1]
                  ELSE [s EXCEPT !.button_index = i]
    ELSE IF event.key = "K_RETURN" \/ event.key = "K_SPACE"
         THEN CallIndexed(s)
         ELSE s

\* The loop of lines 332-335 from button i on (counted from 0); event.hits
\* are the indices of the buttons whose rect holds the mouse position.
RECURSIVE ClickButtons(_, _, _)
ClickButtons(s, event, i) ==
    IF i >= Len(s.buttons) THEN s
    ELSE IF i \in event.hits
         THEN ClickButtons(ButtonCall([s EXCEPT !.button_index = i], i + 1),
                           event, i + 1)
         ELSE ClickButtons(s, event, i + 1)

\* MenuScreen.mouse_button_down (lines 329-335).
MenuMouseButtonDown(s, event) ==
    IF event.button = 1 THEN ClickButtons(s, event, 0) ELSE s

(* ----------------------- GameScreen.handle_event --------------------- *)
\* key_down, key_up, mouse_button_down and mouse_button_up of GameScreen
\* (lines 255-265) do nothing; a subclass overrides them, and event.stops
\* tells that its override clears self.running on this event.
Hook(s, event) == IF event.stops THEN [s EXCEPT !.running = FALSE] ELSE s

KeyDown(class, s, event) ==
    IF class = "MenuScreen" THEN MenuKeyDown(s, event) ELSE Hook(s, event)
MouseButtonDown(class, s, event) ==
    IF class = "MenuScreen" THEN MenuMouseButtonDown(s, event) ELSE Hook(s, event)

\* Mutant of HandleEvent: QUIT clears the running flag instead of exiting.
HandleEventQuitStops(class, s, event) ==
    IF event.type = "QUIT" THEN [s EXCEPT !.running = FALSE]
    ELSE IF event.type = "KEYDOWN" THEN KeyDown(class, s, event)
    ELSE IF event.type = "KEYUP" THEN Hook(s, event)
    ELSE IF event.type = "MOUSEBUTTONDOWN" THEN MouseButtonDown(class, s, event)
    ELSE IF event.type = "MOUSEBUTTONUP" THEN Hook(s, event)
    ELSE s

\* GameScreen.handle_event (lines 267-278) of an object of the given class;
\* sys.exit() raises SystemExit.
HandleEvent(class, s, event) ==
    IF event.type = "QUIT" THEN [s EXCEPT !.error = "SystemExit"]
    ELSE IF event.type = "KEYDOWN" THEN KeyDown(class, s, event)
    ELSE IF event.type = "KEYUP" THEN Hook(s, event)
    ELSE IF event.type = "MOUSEBUTTONDOWN" THEN MouseButtonDown(class, s, event)
    ELSE IF event.type = "MOUSEBUTTONUP" THEN Hook(s, event)
    ELSE s

\* The note of the call handle_event(event) in the log.
EventOp(event) ==
    IF event.type = "KEYDOWN"
    THEN ("handle_event " \o event.type) \o (" " \o event.key)
    ELSE "handle_event " \o event.type

\* Lines 288-289: handle_event for each event pygame.event.get() returned,
\* until one raises. Each call is noted in s.ops.
RECURSIVE HandleEvents(_, _, _)
HandleEvents(class, s, queue) ==
    IF queue = <<>> \/ s.error # "none" THEN s
    ELSE HandleEvents(class,
             HandleEvent(class,
                 [s EXCEPT !.ops = Append(@, EventOp(Head(queue)))],
                 Head(queue)),
             Tail(queue))

(* --------------------------------- RPG ------------------------------- *)
\* RPG.__init__ (lines 63-64): real_size and the window_size handed to
\* GameScreen.__init__, each as (x, y).
RealSize == <<900, 600>>
RPGWindowSize == <<RealSize[1] \div 4, RealSize[2] \div 4>>
\* Player(Point(32, 8)) (line 75): Player.rect after Player.__init__.
PlayerStart == Rect(32, 8, PlayerW, PlayerH)

\* RPG.keyboard_input (lines 85-97): the velocity v after the keys pressed
\* have been applied.
KeyboardInput(v, pressed) ==
    LET up == IF "K_w" \in pressed THEN [v EXCEPT !.y = @ - Speed] ELSE v
        left == IF "K_a" \in pressed THEN [up EXCEPT !.x = @ - Speed] ELSE up
        down == IF "K_s" \in pressed THEN [left EXCEPT !.y = @ + Speed] ELSE left
    IN  IF "K_d" \in pressed THEN [down EXCEPT !.x = @ + Speed] ELSE down

\* Mutant of RPGUpdate: the keys are sampled before the player is moved.
RPGUpdateInputFirst(r, v, facing, cl, pressed) ==
    LET u == PlayerUpdate(r, KeyboardInput(v, pressed), facing, cl)
    IN  [rect |-> u.rect,
         rect_h |-> u.rect_h,
         facing_right |-> u.facing_right,
         consumed |-> KeyboardInput(v, pressed),
         drawn |-> u.rect,
         velocity |-> u.velocity,
         ops |-> <<"fill", "world.draw", "keyboard_input", "player.update",
                   "player.draw">>]

\* RPG.update (lines 78-82) on the player's rect r, velocity v and facing
\* flag, the collision list cl of the world and the keys pressed: the player's
\* fields after the call, the velocity Player.update consumed, the rect
\* Player.draw drew, and the calls made, in order.
RPGUpdate(r, v, facing, cl, pressed) ==
    LET u == PlayerUpdate(r, v, facing, cl)
    IN  [rect |-> u.rect,
         rect_h |-> u.rect_h,
         facing_right |-> u.facing_right,
         consumed |-> v,
         drawn |-> u.rect,
         velocity |-> KeyboardInput(u.velocity, pressed),
         ops |-> <<"fill", "world.draw", "player.update", "player.draw",
                   "keyboard_input">>]

(* --------------------- inputs of Player.update ----------------------- *)
Boards == [1..MaxRows -> [1..MaxCols -> DOMAIN TileDict]]
WorldLists == {WorldCollisionList(b, TileDict, CellSize) : b \in Boards}
\* Rectangles that no World builds: off the tile grid and of several widths.
ShiftedRects ==
    {Rect(CellW + d, d, k * CellW, CellH) : d \in 0..MaxShift, k \in 1..MaxWide}
HandLists == UNION {[1..n -> ShiftedRects] : n \in 1..MaxObst}
Velocities ==
    {Point(i * Speed, j * Speed) : i \in -MaxSteps..MaxSteps, j \in -MaxSteps..MaxSteps}
\* The actor starts around the corner the first four cells share, or above
\* the board.
StartXs == (CellW - PlayerW - Speed)..(CellW + Speed)
StartYs == (0 - PlayerH - Speed)..(CellH + Speed)

\* The GameScreen part of the state while no screen is run.
LoopIdle ==
    /\ arg_window_size = None
    /\ game = NoObject
    /\ run_pc = "idle" /\ iteration = 0 /\ log = <<>> /\ presented = <<>>
    /\ stopped_at = 0 /\ keys = {} /\ prev_keys = {}
    /\ drawn = NoObject /\ last_vx = 0
    /\ buttons = <<>> /\ button_index = 0 /\ activated = <<>>

\* The World part of the state while no World is constructed.
WorldIdle ==
    /\ arg_board = <<>> /\ arg_tile_dict = TileDict /\ arg_cell_size = CellSize
    /\ world_pc = "new" /\ world = NoObject

\* The Animation part of the state while only Player.update is exercised.
AnimIdle ==
    /\ n_files = 0 /\ arg_frame_data = <<>> /\ arg_repititions = None
    /\ anim_pc = "new" /\ anim = NoObject /\ prev = NoObject
    /\ last_op = "none" /\ updates = 0 /\ since = 0 /\ reset_called = FALSE

MoveInit ==
    /\ AnimIdle
    /\ WorldIdle
    /\ LoopIdle
    /\ collision_list \in WorldLists \cup HandLists
    /\ \E x \in StartXs, y \in StartYs : rect = Rect(x, y, PlayerW, PlayerH)
    /\ velocity \in Velocities
    /\ facing_right \in BOOLEAN
    /\ move_pc = "start"
    /\ start = [rect |-> rect, velocity |-> velocity, facing_right |-> facing_right]
    /\ rect_h = rect

\* self.player.update(self.world.collision_list)
Update ==
    /\ move_pc = "start"
    /\ LET u == PlayerUpdate(rect, velocity, facing_right, collision_list)
       IN  /\ rect' = u.rect
           /\ rect_h' = u.rect_h
           /\ velocity' = u.velocity
           /\ facing_right' = u.facing_right
    /\ move_pc' = "done"
    /\ UNCHANGED <<collision_list, start>>
    /\ UNCHANGED <<anim_vars, world_vars, loop_vars, menu_vars>>

MoveNext == Update
MoveSpec == MoveInit /\ [][MoveNext]_vars

(* ---------------------- the life of an Animation --------------------- *)
Durations == 1..MaxDuration
FrameDatas == UNION {[1..n -> Durations] : n \in 0..MaxFrames}
Repititions == {None} \cup {Some(n) : n \in 0..MaxReps}
\* update() is called until every animation drawn has finished, and once more.
MaxUpdates == MaxReps * MaxFrames * MaxDuration + 1

\* The Player part of the state while only the Animation is exercised.
MoveIdle ==
    /\ collision_list = <<>>
    /\ rect = Rect(0, 0, PlayerW, PlayerH)
    /\ velocity = Point(0, 0)
    /\ facing_right = TRUE
    /\ move_pc = "done"
    /\ start = [rect |-> rect, velocity |-> velocity, facing_right |-> facing_right]
    /\ rect_h = rect

AnimInit ==
    /\ MoveIdle
    /\ WorldIdle
    /\ LoopIdle
    /\ n_files \in 0..MaxFrames
    /\ arg_frame_data \in FrameDatas
    /\ arg_repititions \in Repititions
    /\ anim_pc = "new" /\ anim = NoObject /\ prev = NoObject
    /\ last_op = "none" /\ updates = 0 /\ since = 0 /\ reset_called = FALSE

\* a = Animation(glob_path, frame_data, repititions)
Construct ==
    /\ anim_pc = "new"
    /\ LET made == AnimationNew(n_files, arg_frame_data, arg_repititions)
       IN  IF made.error = "none"
           THEN anim_pc' = "ok" /\ anim' = made.self
           ELSE anim_pc' = made.error /\ anim' = NoObject
    /\ last_op' = "init"
    /\ UNCHANGED <<n_files, arg_frame_data, arg_repititions, prev, updates,
                   since, reset_called>>
    /\ UNCHANGED <<move_vars, world_vars, loop_vars, menu_vars>>

\* a.update()
CallUpdate ==
    /\ anim_pc = "ok"
    /\ updates < MaxUpdates
    /\ anim' = AnimationUpdate(anim)
    /\ prev' = anim
    /\ last_op' = "update"
    /\ updates' = updates + 1
    /\ since' = since + 1
    /\ UNCHANGED <<n_files, arg_frame_data, arg_repititions, anim_pc, reset_called>>
    /\ UNCHANGED <<move_vars, world_vars, loop_vars, menu_vars>>

\* a.reset()
CallReset ==
    /\ anim_pc = "ok"
    /\ anim' = AnimationReset(anim)
    /\ prev' = anim
    /\ last_op' = "reset"
    /\ since' = 0
    /\ reset_called' = TRUE
    /\ UNCHANGED <<n_files, arg_frame_data, arg_repititions, anim_pc, updates>>
    /\ UNCHANGED <<move_vars, world_vars, loop_vars, menu_vars>>

AnimNext == Construct \/ CallUpdate \/ CallReset
AnimSpec == AnimInit /\ [][AnimNext]_vars

\* Every int the constructor accepts without an error: durations of no game
\* frame at all, and a negative number of repetitions.
AnyDurations == 0..MaxDuration
AnyFrameDatas == UNION {[1..n -> AnyDurations] : n \in 0..MaxFrames}
AnyRepititions == {None} \cup {Some(n) : n \in (0 - 1)..MaxReps}

AnyAnimInit ==
    /\ MoveIdle
    /\ WorldIdle
    /\ LoopIdle
    /\ n_files \in 0..MaxFrames
    /\ arg_frame_data \in AnyFrameDatas
    /\ arg_repititions \in AnyRepititions
    /\ anim_pc = "new" /\ anim = NoObject /\ prev = NoObject
    /\ last_op = "none" /\ updates = 0 /\ since = 0 /\ reset_called = FALSE

AnyAnimSpec == AnyAnimInit /\ [][AnimNext]_vars

(* ----------------------- the construction of a World ---------------- *)
TileIds == 0..MaxTileId
\* The boards a map file holds: equal-length rows of tile ids.
Grids ==
    UNION {[1..r -> [1..c -> TileIds]] : r \in 0..MaxGridRows, c \in 1..MaxGridCols}
\* The catalogs: any of the tile ids mapped to None or to an image.
TileDicts == UNION {[ids -> {NoAsset, "grass"}] : ids \in SUBSET TileIds}
CellSizes == {CellSize, Point(CellH, CellW)}

WorldInit ==
    /\ MoveIdle
    /\ AnimIdle
    /\ LoopIdle
    /\ arg_board \in Grids
    /\ arg_tile_dict \in TileDicts
    /\ arg_cell_size \in CellSizes
    /\ world_pc = "new" /\ world = NoObject

\* w = World(board_path, tile_dict, cell_size)
ConstructWorld ==
    /\ world_pc = "new"
    /\ LET made == WorldNew(arg_board, arg_tile_dict, arg_cell_size)
       IN  IF made.error = "none"
           THEN world_pc' = "ok" /\ world' = made.self
           ELSE world_pc' = made.error /\ world' = NoObject
    /\ UNCHANGED <<arg_board, arg_tile_dict, arg_cell_size>>
    /\ UNCHANGED <<move_vars, anim_vars, loop_vars, menu_vars>>

WorldNext == ConstructWorld
WorldSpec == WorldInit /\ [][WorldNext]_vars

(* --------------------------- GameScreen.run -------------------------- *)
\* An event, with the attributes the handlers read: the key of a KEYDOWN,
\* the button of a MOUSEBUTTONDOWN and the buttons under the mouse.
Event(type, key, button, hits, stops) ==
    [type |-> type, key |-> key, button |-> button, hits |-> hits, stops |-> stops]
EventTypes ==
    {"QUIT", "KEYDOWN", "KEYUP", "MOUSEBUTTONDOWN", "MOUSEBUTTONUP", "ACTIVEEVENT"}
HookTypes == {"KEYDOWN", "KEYUP", "MOUSEBUTTONDOWN", "MOUSEBUTTONUP"}
\* The events of a screen whose hooks are those of GameScreen.
PlainEvents == {Event(t, "K_a", 1, {}, FALSE) : t \in EventTypes}
\* The events of a screen of a subclass whose hooks may clear self.running.
ScreenEvents == PlainEvents \cup {Event(t, "K_a", 1, {}, TRUE) : t \in HookTypes}
\* The events of a MenuScreen of n buttons.
MenuEvents(n) ==
    {Event("QUIT", "K_a", 1, {}, FALSE)}
    \cup {Event("KEYDOWN", k, 1, {}, FALSE) :
              k \in ArrowKeys \cup {"K_RETURN", "K_SPACE", "K_a"}}
    \cup {Event("MOUSEBUTTONDOWN", "K_a", b, h, FALSE) :
              b \in {1, 3}, h \in SUBSET (0..(n - 1))}
\* What pygame.event.get() may return.
Queues(events) == UNION {[1..k -> events] : k \in 0..MaxEvents}

\* Line 286: run() sets the running flag.
Run ==
    /\ run_pc = "idle"
    /\ game' = [game EXCEPT !.running = TRUE]
    /\ run_pc' = "loop"
    /\ UNCHANGED <<arg_window_size, iteration, log, presented, stopped_at,
                   keys, prev_keys, drawn, last_vx>>
    /\ UNCHANGED <<move_vars, anim_vars, world_vars, menu_vars>>

\* Line 287: the test of the running flag, which holds.
EnterIteration ==
    /\ run_pc = "loop"
    /\ game.running
    /\ iteration < MaxIters
    /\ iteration' = iteration + 1
    /\ log' = <<"while">>
    /\ presented' = <<>>
    /\ run_pc' = "events"
    /\ UNCHANGED <<arg_window_size, game, stopped_at, keys, prev_keys, drawn,
                   last_vx>>
    /\ UNCHANGED <<move_vars, anim_vars, world_vars, menu_vars>>

\* Line 287: the test of the running flag, which fails: run() returns.
Return ==
    /\ run_pc = "loop"
    /\ ~game.running
    /\ run_pc' = "returned"
    /\ UNCHANGED <<arg_window_size, game, iteration, log, presented,
                   stopped_at, keys, prev_keys, drawn, last_vx>>
    /\ UNCHANGED <<move_vars, anim_vars, world_vars, menu_vars>>

\* Lines 288-289 for a screen of the given class and a queue of the given
\* events: the position is that of line 290, or the exception raised.
PumpEvents(class, events) ==
    /\ run_pc = "events"
    /\ \E queue \in Queues(events) :
          LET s == HandleEvents(class,
                       [running |-> game.running,
                        buttons |-> buttons,
                        button_index |-> button_index,
                        activated |-> <<>>,
                        ops |-> <<>>,
                        error |-> "none"],
                       queue)
          IN  /\ game' = [game EXCEPT !.running = s.running]
              /\ buttons' = s.buttons
              /\ button_index' = s.button_index
              /\ activated' = s.activated
              /\ log' = log \o s.ops
              /\ stopped_at' = IF game.running /\ ~s.running
                               THEN iteration ELSE stopped_at
              /\ run_pc' = IF s.error = "none" THEN "update" ELSE s.error
    /\ UNCHANGED <<arg_window_size, iteration, presented, keys, prev_keys,
                   drawn, last_vx>>
    /\ UNCHANGED <<move_vars, anim_vars, world_vars>>

\* Line 290 for a GameScreen: GameScreen.update (line 282).
UpdateGameScreen ==
    /\ run_pc = "update"
    /\ log' = log \o <<"update", "fill">>
    /\ run_pc' = "present"
    /\ UNCHANGED <<arg_window_size, game, iteration, presented, stopped_at,
                   keys, prev_keys, drawn, last_vx>>
    /\ UNCHANGED <<move_vars, anim_vars, world_vars, menu_vars>>

\* Line 290 for a MenuScreen: MenuScreen.update (lines 326-327).
UpdateMenuScreen ==
    /\ run_pc = "update"
    /\ buttons' = DrawButtons(buttons)
    /\ log' = log \o <<"update", "draw_buttons">>
    /\ run_pc' = "present"
    /\ UNCHANGED <<arg_window_size, game, iteration, presented, stopped_at,
                   keys, prev_keys, drawn, last_vx>>
    /\ UNCHANGED <<button_index, activated>>
    /\ UNCHANGED <<move_vars, anim_vars, world_vars>>

WASD == {"K_w", "K_a", "K_s", "K_d"}

\* Line 290 for an RPG: RPG.update, with the keys pygame.key.get_pressed()
\* reports.
UpdateRPG ==
    /\ run_pc = "update"
    /\ \E pressed \in SUBSET WASD :
          LET u == RPGUpdate(rect, velocity, facing_right, collision_list, pressed)
          IN  /\ rect' = u.rect
              /\ rect_h' = u.rect_h
              /\ facing_right' = u.facing_right
              /\ velocity' = u.velocity
              /\ start' = [rect |-> rect, velocity |-> u.consumed,
                           facing_right |-> facing_right]
              /\ drawn' = u.drawn
              /\ last_vx' = IF u.consumed.x # 0 THEN u.consumed.x ELSE last_vx
              /\ keys' = pressed
              /\ prev_keys' = keys
              /\ log' = (log \o <<"update">>) \o u.ops
    /\ move_pc' = "done"
    /\ run_pc' = "present"
    /\ UNCHANGED <<arg_window_size, game, iteration, presented, stopped_at>>
    /\ UNCHANGED collision_list
    /\ UNCHANGED <<anim_vars, world_vars, menu_vars>>

\* Lines 291-293: the scaled blit of a scaled window, and
\* pygame.display.update().
Present ==
    /\ run_pc = "present"
    /\ presented' = ScaledBlits(game)
    /\ log' = (log \o [k \in 1..Len(ScaledBlits(game)) |-> "blit"])
                  \o <<"display.update">>
    /\ run_pc' = "tick"
    /\ UNCHANGED <<arg_window_size, game, iteration, stopped_at, keys,
                   prev_keys, drawn, last_vx>>
    /\ UNCHANGED <<move_vars, anim_vars, world_vars, menu_vars>>

\* Line 294: self.tick().
TickStep ==
    /\ run_pc = "tick"
    /\ game' = Tick(game)
    /\ log' = Append(log, "tick")
    /\ run_pc' = "loop"
    /\ UNCHANGED <<arg_window_size, iteration, presented, stopped_at, keys,
                   prev_keys, drawn, last_vx>>
    /\ UNCHANGED <<move_vars, anim_vars, world_vars, menu_vars>>

\* The state of run() before its call, on the screen g.
RunIdle(g) ==
    /\ game = g
    /\ run_pc = "idle" /\ iteration = 0 /\ log = <<>> /\ presented = <<>>
    /\ stopped_at = 0 /\ keys = {} /\ prev_keys = {}
    /\ drawn = NoObject /\ last_vx = 0

(* ----------------------- a GameScreen being run ---------------------- *)
WindowSizes == {RealSize, RPGWindowSize}

\* GameScreen(screen, real_window_size, window_size) of any sizes, window_size
\* also left out, in a subclass that overrides the hooks.
ScreenInit ==
    /\ MoveIdle
    /\ AnimIdle
    /\ WorldIdle
    /\ arg_window_size \in {None} \cup WindowSizes
    /\ \E real \in WindowSizes :
          RunIdle(GameScreenNew("display", real, arg_window_size))
    /\ buttons = <<>> /\ button_index = 0 /\ activated = <<>>

ScreenNext ==
    \/ Run
    \/ EnterIteration
    \/ Return
    \/ PumpEvents("GameScreen", ScreenEvents)
    \/ UpdateGameScreen
    \/ Present
    \/ TickStep
ScreenSpec == ScreenInit /\ [][ScreenNext]_vars

(* ---------------------------- RPG().run() ---------------------------- *)
\* assets/map.txt: the boards whose first row has no solid cell.
RPGBoards == {b \in Boards : \A j \in 1..MaxCols : TileDict[b[1][j]] # NoAsset}

\* RPG.__init__ (lines 62-75).
RPGInit ==
    /\ AnimIdle
    /\ WorldIdle
    /\ arg_window_size = RPGWindowSize
    /\ RunIdle(GameScreenNew("display", RealSize, RPGWindowSize))
    /\ buttons = <<>> /\ button_index = 0 /\ activated = <<>>
    /\ \E b \in RPGBoards : collision_list = WorldCollisionList(b, TileDict, CellSize)
    /\ rect = PlayerStart
    /\ velocity = Point(0, 0)
    /\ facing_right = TRUE
    /\ move_pc = "start"
    /\ start = [rect |-> rect, velocity |-> velocity, facing_right |-> facing_right]
    /\ rect_h = rect

\* RPG overrides no hook and never clears the running flag: the loop of an
\* RPG ends with QUIT only.
RPGNext ==
    \/ Run
    \/ EnterIteration
    \/ PumpEvents("RPG", PlainEvents)
    \/ UpdateRPG
    \/ Present
    \/ TickStep
RPGSpec == RPGInit /\ [][RPGNext]_vars

(* ------------------------ a MenuScreen being run --------------------- *)
ButtonLists ==
    UNION {[1..n -> {Button(NoAction), Button("stop")}] : n \in 0..MaxButtons}

\* MenuScreen.__init__ (lines 303-305), and the buttons the owner of the
\* screen has put into self.buttons before run().
MenuInit ==
    /\ MoveIdle
    /\ AnimIdle
    /\ WorldIdle
    /\ arg_window_size = None
    /\ RunIdle(GameScreenNew("display", RealSize, None))
    /\ buttons \in ButtonLists
    /\ button_index = 0
    /\ activated = <<>>

MenuNext ==
    \/ Run
    \/ EnterIteration
    \/ Return
    \/ PumpEvents("MenuScreen", MenuEvents(Len(buttons)))
    \/ UpdateMenuScreen
    \/ Present
    \/ TickStep
MenuSpec == MenuInit /\ [][MenuNext]_vars

(* ------------------------ claims on Player.update -------------------- *)
Abs(n) == IF n < 0 THEN 0 - n ELSE n
Done == move_pc = "done"
NoOverlap(r, cl) == \A i \in 1..Len(cl) : ~CollideRect(r, cl[i])
\* The actor starts the call overlapping no obstacle.
StartFree == NoOverlap(start.rect, collision_list)
\* Every obstacle is a cell of the RPG's tile grid, as World builds them.
OnGrid(cl) ==
    \A i \in 1..Len(cl) :
        /\ cl[i].w = CellW /\ cl[i].h = CellH
        /\ cl[i].x % CellW = 0 /\ cl[i].y % CellH = 0
\* No velocity component exceeds the cell's extent on its axis.
WithinCell(v) == Abs(v.x) <= CellW /\ Abs(v.y) <= CellH
\* The start rect displaced by the velocity, before any clamping.
Displaced == [start.rect EXCEPT !.x = @ + start.velocity.x, !.y = @ + start.velocity.y]

\* C1 (as claimed): after Player.update the actor's rect overlaps no rectangle
\* of the collision list, whatever the start rect, velocity and list.
C1_Original == Done => NoOverlap(rect, collision_list)

\* C1 (amended): an actor that starts overlapping no obstacle, moved against
\* cells of the tile grid by a velocity of at most one cell per axis, ends
\* Player.update overlapping no rectangle of the collision list.
C1_NoOverlapOnGrid ==
    (Done /\ StartFree /\ OnGrid(collision_list) /\ WithinCell(start.velocity))
        => NoOverlap(rect, collision_list)

\* C1 witness: such a call in which the actor was stopped by an obstacle.
C1_Witness ==
    /\ Done /\ StartFree /\ OnGrid(collision_list) /\ WithinCell(start.velocity)
    /\ Len(collision_list) >= 2
    /\ start.velocity.x # 0 /\ start.velocity.y # 0
    /\ rect.x # Displaced.x /\ rect.y # Displaced.y
    /\ NoOverlap(rect, collision_list)

\* The collision lists that hold the same rectangles as cl, in any order.
Reorderings(cl) ==
    {[i \in 1..Len(cl) |-> cl[p[i]]] : p \in Permutations(1..Len(cl))}
\* A second execution from the same rect and velocity, with facing flag f and
\* list cl, ends with the rect this execution ended with.
SameFinalRect(f, cl) ==
    PlayerUpdate(start.rect, start.velocity, f, cl).rect = rect

\* C2 (as claimed): two executions of Player.update from the same rect, the
\* same velocity and the same set of obstacles end with the same rect.
C2_Original ==
    Done => \A f \in BOOLEAN, cl \in Reorderings(collision_list) : SameFinalRect(f, cl)

\* C2 (amended): for an actor that starts overlapping no obstacle, obstacles
\* that are cells of the tile grid and a velocity of at most one cell per axis,
\* the final rect depends on the start rect, the velocity and the set of
\* obstacles alone: neither on the facing flag nor on the order of the list.
C2_SameFinalRectOnGrid ==
    (Done /\ StartFree /\ OnGrid(collision_list) /\ WithinCell(start.velocity))
        => \A f \in BOOLEAN, cl \in Reorderings(collision_list) : SameFinalRect(f, cl)

\* C2 witness: such a call with several obstacles, stopped on both axes.
C2_Witness ==
    /\ Done /\ StartFree /\ OnGrid(collision_list) /\ WithinCell(start.velocity)
    /\ Len(collision_list) >= 3
    /\ rect.x # Displaced.x /\ rect.y # Displaced.y
    /\ start.facing_right # facing_right

XOverlap(a, b) == Left(a) < Right(b) /\ Left(b) < Right(a)
YOverlap(a, b) == Top(a) < Bottom(b) /\ Top(b) < Bottom(a)
\* The actor went from rect s, entirely on one side of o, to rect r, entirely
\* on the opposite side of o.
Tunnelled(s, r, o) ==
    \/ Right(s) <= Left(o) /\ YOverlap(s, o) /\ Left(r) >= Right(o)
    \/ Left(s) >= Right(o) /\ YOverlap(s, o) /\ Right(r) <= Left(o)
    \/ Bottom(s) <= Top(o) /\ XOverlap(s, o) /\ Top(r) >= Bottom(o)
    \/ Top(s) >= Bottom(o) /\ XOverlap(s, o) /\ Bottom(r) <= Top(o)
NoTunnel ==
    \A i \in 1..Len(collision_list) : ~Tunnelled(start.rect, rect, collision_list[i])
\* The velocity is smaller than a cell plus the actor, on each axis.
BelowJump(v) == Abs(v.x) < CellW + PlayerW /\ Abs(v.y) < CellH + PlayerH

\* C3 (as claimed): for every velocity, an actor entirely on one side of an
\* obstacle does not end Player.update entirely on its opposite side.
C3_Original == Done => NoTunnel

\* C3 (amended): against cells of the tile grid, with a velocity smaller on
\* each axis than a cell plus the actor, an actor entirely on one side of an
\* obstacle does not end Player.update entirely on its opposite side.
C3_NoTunnelOnGrid ==
    (Done /\ OnGrid(collision_list) /\ BelowJump(start.velocity)) => NoTunnel

\* C3 witness: the actor, left of a cell and moving right into it, was stopped
\* at the cell's left edge.
C3_Witness ==
    /\ Done /\ OnGrid(collision_list) /\ BelowJump(start.velocity)
    /\ start.velocity.x > 0
    /\ \E i \in 1..Len(collision_list) :
          /\ Right(start.rect) <= Left(collision_list[i])
          /\ YOverlap(start.rect, collision_list[i])
          /\ Right(Displaced) > Left(collision_list[i])
          /\ Right(rect) = Left(collision_list[i])

\* The start rect after rect.x += velocity.x, and the obstacles it overlaps.
MovedX == [start.rect EXCEPT !.x = @ + start.velocity.x]
HitX == {i \in 1..Len(collision_list) : CollideRect(MovedX, collision_list[i])}
\* The horizontal step ended with the actor clamped against obstacle o.
ClampedX(o) ==
    IF facing_right THEN Right(rect_h) = Left(o) ELSE Left(rect_h) = Right(o)

\* C4 (as claimed): the horizontal step ends with the actor clamped against
\* the obstacle its rect overlaps after adding velocity.x, whichever it is.
C4_Original == Done => \A i \in HitX : ClampedX(collision_list[i])

\* C4 (amended): the horizontal step ends with the actor clamped against the
\* last obstacle of the collision list that its rect overlaps after adding
\* velocity.x: rect.right is that obstacle's left edge when the actor faces
\* right, rect.left its right edge when the actor faces left.
C4_ClampedToLastHit ==
    (Done /\ HitX # {})
        => ClampedX(collision_list[CHOOSE i \in HitX : \A j \in HitX : j <= i])

\* C4 witness: the actor faces right, its rect overlaps two obstacles of
\* different left edges after adding velocity.x, and the horizontal step left
\* it against the one that comes last in the collision list.
C4_Witness ==
    /\ Done /\ facing_right
    /\ \E i, j \in HitX :
          /\ i < j /\ \A k \in HitX : k <= j
          /\ Left(collision_list[i]) # Left(collision_list[j])
          /\ Right(rect_h) = Left(collision_list[j])

(* ------------------------ claims on Animation ------------------------ *)
Constructed == anim_pc = "ok"
RECURSIVE SumSeq(_)
SumSeq(s) == IF s = <<>> THEN 0 ELSE Head(s) + SumSeq(Tail(s))
\* The frame an animation of durations d shows after t updates from frame 0:
\* frame i from the end of the frames before it and for d[i + 1] updates,
\* the schedule repeating after SumSeq(d) updates.
ScheduledFrame(d, t) ==
    CHOOSE i \in 0..(Len(d) - 1) :
        /\ SumSeq(SubSeq(d, 1, i)) <= t % SumSeq(d)
        /\ t % SumSeq(d) < SumSeq(SubSeq(d, 1, i + 1))

C6_ZeroRepetitionsFrozen ==
    (Constructed /\ arg_repititions = Some(0))
        => /\ anim.finished
           /\ last_op = "update" => anim.frame_index = prev.frame_index

\* C6 witness: such an animation of two frames after more update() calls than
\* its first frame lasts.
C6_Witness ==
    /\ Constructed /\ arg_repititions = Some(0) /\ Len(arg_frame_data) = 2
    /\ last_op = "update" /\ since > arg_frame_data[1]
    /\ anim.finished /\ anim.frame_index = 0

\* C7: an Animation constructed without repetitions is not finished after
\* any sequence of update() and reset() calls.
C7_NoRepetitionsNeverFinished ==
    (Constructed /\ arg_repititions = None) => ~anim.finished

\* C7 witness: such an animation that has been reset and has since gone
\* through all its frames and back to frame 0.
C7_Witness ==
    /\ Constructed /\ arg_repititions = None /\ reset_called
    /\ since = SumSeq(arg_frame_data) /\ last_op = "update"
    /\ anim.frame_index = 0 /\ ~anim.finished

C9_DecrementsEveryUpdate ==
    (Constructed /\ last_op = "update" /\ prev.repititions # None
        /\ prev.repititions # Some(0))
        => anim.repititions = Some(prev.repititions[1] - 1)

\* C10: constructing an Animation raises an error and yields no object when
\* the number of files differs from the number of durations; with equal,
\* non-zero numbers it succeeds with frame_index = 0 and the countdown
\* loaded from the first duration.
C10_ConstructionChecksLengths ==
    (anim_pc # "new")
        => /\ n_files # Len(arg_frame_data) =>
                (anim_pc = "ValueError" /\ anim = NoObject)
           /\ (n_files = Len(arg_frame_data) /\ n_files > 0) =>
                /\ anim_pc = "ok"
                /\ last_op = "init" =>
                     /\ anim.frame_index = 0
                     /\ anim.frames_until_next = arg_frame_data[1]

\* C10 witness: a construction with one file and two durations has raised.
C10_Witness ==
    /\ anim_pc = "ValueError" /\ last_op = "init"
    /\ n_files = 1 /\ Len(arg_frame_data) = 2

\* The ranges the claim gives the attributes of an Animation.
InRange(a) ==
    /\ 0 <= a.frame_index /\ a.frame_index < a.frame_count
    /\ a.frames_until_next >= 0
    /\ a.repititions # None => a.repititions[1] >= 0

\* C17 (as claimed): in every state reachable from a successfully
\* constructed Animation by update() and reset() calls, 0 <= frame_index <
\* frame_count, frames_until_next >= 0 and repititions, when present, is a
\* non-negative integer.
C17_AttributesInRange == Constructed => InRange(anim)

\* C18: reset() sets frame_index to 0 and frames_until_next to the duration
\* of frame 0 and leaves finished and repititions as they were, in every
\* state; a finished animation that was reset shows frame 0 and no update()
\* changes it.
C18_ResetRewindsOnly ==
    Constructed
        => /\ last_op = "reset" =>
                /\ anim.frame_index = 0
                /\ anim.frames_until_next = arg_frame_data[1]
                /\ anim.finished = prev.finished
                /\ anim.repititions = prev.repititions
           /\ (reset_called /\ anim.finished) => GetSurface(anim) = 0
           /\ (reset_called /\ last_op = "update" /\ prev.finished) => anim = prev

\* C18 witness: reset() was called in the middle of the second frame of an
\* unfinished animation with a repetition left.
C18_Witness ==
    /\ Constructed /\ last_op = "reset"
    /\ prev.frame_index = 1 /\ prev.frames_until_next # arg_frame_data[1]
    /\ prev.repititions = Some(1) /\ ~prev.finished
    /\ anim.frame_index = 0 /\ anim.frames_until_next = arg_frame_data[1]
    /\ anim.repititions = Some(1) /\ ~anim.finished

(* --------------------------- claims on World ------------------------- *)
\* The cells of the board, as (row, column) counted from 0.
Cells ==
    {c \in (0..(Len(arg_board) - 1)) \X (0..(MaxGridCols - 1)) :
        c[2] < Len(arg_board[c[1] + 1])}
CellId(c) == arg_board[c[1] + 1][c[2] + 1]
MissingCells == {c \in Cells : CellId(c) \notin DOMAIN arg_tile_dict}
SolidCells == {c \in Cells : arg_tile_dict[CellId(c)] = NoAsset}
\* The rectangle the claim gives the cell c.
ClaimedRect(c) ==
    Rect(c[2] * arg_cell_size.x, c[1] * arg_cell_size.y,
         arg_cell_size.x, arg_cell_size.y)

\* C11: constructing a World raises an error whenever a tile id of the board
\* is not a key of tile_dict, and then no World object exists.
C11_MissingTileIdRaises ==
    (world_pc # "new" /\ MissingCells # {})
        => (world_pc = "KeyError" /\ world = NoObject)

\* C11 witness: the construction has raised on a board whose only missing
\* id is in its last cell, after a solid cell.
C11_Witness ==
    /\ world_pc = "KeyError" /\ world = NoObject
    /\ Len(arg_board) = 2
    /\ MissingCells = {<<1, 1>>}
    /\ arg_tile_dict[CellId(<<0, 0>>)] = NoAsset

\* C12: after the construction of a World, collision_list holds exactly one
\* Rect for each cell whose tile_dict entry is None and nothing else; the
\* Rect of cell (row, col) is at (col * cell_size.x, row * cell_size.y) and of
\* size cell_size.
C12_OneRectPerSolidCell ==
    (world_pc = "ok")
        => /\ Len(world.collision_list) = Cardinality(SolidCells)
           /\ \A c \in SolidCells :
                 \E k \in 1..Len(world.collision_list) :
                     world.collision_list[k] = ClaimedRect(c)
           /\ \A k \in 1..Len(world.collision_list) :
                 \E c \in SolidCells : world.collision_list[k] = ClaimedRect(c)

\* C12 witness: the board [[1,1],[0,1]] with {0: None, 1: image} and cells of
\* (16, 4) gives the one rectangle Rect(0, 4, 16, 4).
C12_Witness ==
    /\ world_pc = "ok"
    /\ arg_board = <<(<<1, 1>>), (<<0, 1>>)>>
    /\ arg_tile_dict = TileDict
    /\ arg_cell_size = Point(16, 4)
    /\ world.collision_list = <<Rect(0, 4, 16, 4)>>

(* ------------------------ claims on the main loop -------------------- *)
\* The call op was made in the current iteration; its positions in the log.
Positions(op) == {k \in 1..Len(log) : log[k] = op}
Has(op) == Positions(op) # {}
\* The position of the call op, which was made once.
Pos(op) == CHOOSE k \in Positions(op) : TRUE
\* The call a was made once and before the call b, made once too.
Before(a, b) ==
    /\ Cardinality(Positions(a)) = 1 /\ Cardinality(Positions(b)) = 1
    /\ Pos(a) < Pos(b)
\* The velocity keyboard_input() sets from a velocity of (0, 0).
KeyVelocity(pressed) == KeyboardInput(Point(0, 0), pressed)
\* Player.update was called in the current iteration.
Moved == Has("player.update")

\* C13 (as claimed): in every iteration the keys are sampled before the
\* player is moved, the velocity Player.update consumes is the one set from
\* the keys sampled in the same iteration, and the player is drawn at the
\* position the update gave it.
C13_Original ==
    Moved
        => /\ Before("keyboard_input", "player.update")
           /\ start.velocity = KeyVelocity(keys)
           /\ Before("player.update", "player.draw") /\ drawn = rect

\* C13 (amended): in every iteration the player is moved, then drawn at the
\* position the update gave it, and only then are the keys sampled; the
\* velocity Player.update consumes is the one set from the keys sampled in
\* the iteration before, and (0, 0) in the first iteration.
C13_InputSampledAfterMove ==
    Moved
        => /\ Before("player.update", "player.draw")
           /\ Before("player.draw", "keyboard_input")
           /\ drawn = rect
           /\ start.velocity = KeyVelocity(prev_keys)
           /\ velocity = KeyVelocity(keys)
           /\ iteration = 1 => start.velocity = Point(0, 0)

\* C13 witness: in the second iteration the player was moved left by the key
\* sampled in the first and drawn there, and another key was sampled after.
C13_Witness ==
    /\ Moved /\ iteration = 2
    /\ prev_keys = {"K_a"} /\ keys = {"K_s"}
    /\ start.velocity = Point(0 - Speed, 0)
    /\ rect.x = start.rect.x - Speed
    /\ drawn = rect
    /\ velocity = Point(0, Speed)

\* The window is not scaled: window_size is left out or is the real size.
Unscaled == arg_window_size = None \/ arg_window_size = game.real_window_size
\* The blit of the whole logical surface, scaled to the real size, onto the
\* real screen at (0, 0).
WholeScreenBlit ==
    [source |-> game.screen, scaled_to |-> game.real_window_size,
     dest |-> game.real_screen, at |-> <<0, 0>>]

\* C14: a GameScreen whose window_size is absent or equal to the real size
\* draws on the real screen itself and makes no scaled blit in any iteration;
\* with any other window_size every iteration that runs to its end makes
\* exactly one scaled blit, of the whole logical surface onto the real screen
\* at (0, 0), after update() and before tick().
C14_ScaledBlitOncePerIteration ==
    /\ Unscaled =>
          /\ game.screen = game.real_screen
          /\ ~Has("blit") /\ presented = <<>>
    /\ ~Unscaled =>
          /\ game.screen # game.real_screen
          /\ Cardinality(Positions("blit")) <= 1
          /\ Has("tick") =>
                /\ Before("update", "blit") /\ Before("blit", "tick")
                /\ presented = <<WholeScreenBlit>>

\* C14 witness: the second iteration of a screen of a quarter of the real
\* size has ended, with its one blit.
C14_Witness ==
    /\ arg_window_size = RPGWindowSize /\ game.real_window_size = RealSize
    /\ iteration = 2 /\ Has("tick")
    /\ presented = <<WholeScreenBlit>>
    /\ game.screen = "canvas"

\* C15: the running flag is tested once per iteration: once it is cleared in
\* an iteration, run() completes that iteration, starts no other one and
\* returns; a QUIT event ends run() at once, no update(), blit,
\* display.update() or tick() following it.
C15_StopsAfterIterationQuitsAtOnce ==
    /\ Cardinality(Positions("while")) <= 1
    /\ stopped_at > 0 => iteration = stopped_at
    /\ run_pc = "returned" =>
          /\ stopped_at = iteration
          /\ Before("while", "update") /\ Before("update", "display.update")
          /\ Before("display.update", "tick")
          /\ log[Len(log)] = "tick"
    /\ stopped_at > 0 => ~game.running
    /\ Has("handle_event QUIT") =>
          /\ run_pc = "SystemExit"
          /\ log[Len(log)] = "handle_event QUIT"
          /\ ~Has("update") /\ ~Has("blit")
          /\ ~Has("display.update") /\ ~Has("tick")

\* C15 witness: the flag was cleared by a handler in the second iteration,
\* which was completed, and run() has returned.
C15_Witness ==
    /\ run_pc = "returned" /\ stopped_at = 2 /\ iteration = 2
    /\ ~game.running
    /\ Has("update") /\ log[Len(log)] = "tick"
    /\ game.game_ticks = 2

\* C16: Player.update ends with velocity (0, 0), so whatever the keys, the
\* velocity each Player.update consumes has both components in {-3, 0, 3},
\* and opposite keys cancel.
C16_VelocityIsOneTickImpulse ==
    /\ PlayerUpdate(rect, velocity, facing_right, collision_list).velocity = Point(0, 0)
    /\ start.velocity.x \in {0 - Speed, 0, Speed}
    /\ start.velocity.y \in {0 - Speed, 0, Speed}
    /\ velocity.x \in {0 - Speed, 0, Speed}
    /\ velocity.y \in {0 - Speed, 0, Speed}
    /\ {"K_a", "K_d"} \subseteq keys => velocity.x = 0
    /\ {"K_w", "K_s"} \subseteq keys => velocity.y = 0

\* C16 witness: with the right key held over three iterations the third
\* Player.update consumed 3 again, the player having moved by 3 twice.
C16_Witness ==
    /\ Moved /\ iteration = 3
    /\ "K_d" \in prev_keys /\ "K_d" \in keys /\ "K_a" \notin prev_keys
    /\ start.velocity.x = Speed
    /\ rect.x = PlayerStart.x + 2 * Speed
    /\ velocity.x = Speed

\* C19: after Player.update the facing flag is right if the velocity.x it
\* consumed was > 0, left if it was < 0 and unchanged if it was 0; over any
\* sequence of moves the flag is the sign of the last non-zero velocity.x
\* consumed, and right before any.
C19_FacingFollowsLastMove ==
    /\ move_pc = "done" =>
          facing_right = (IF start.velocity.x > 0 THEN TRUE
                          ELSE IF start.velocity.x < 0 THEN FALSE
                          ELSE start.facing_right)
    /\ facing_right = (last_vx >= 0)

\* C19 witness: the player, turned left by an earlier move, has consumed a
\* velocity.x of 0 and still faces left.
C19_Witness ==
    /\ move_pc = "done" /\ Moved
    /\ start.velocity.x = 0 /\ last_vx < 0
    /\ ~start.facing_right /\ ~facing_right

(* ------------------------- claims on MenuScreen ---------------------- *)
\* The screen as key_down finds it, and a KEYDOWN event of the key k.
MenuHere ==
    [running |-> game.running, buttons |-> buttons, button_index |-> button_index,
     activated |-> <<>>, ops |-> <<>>, error |-> "none"]
KeyDownOf(k) == Event("KEYDOWN", k, 1, {}, FALSE)

\* C20: in a MenuScreen of at least one button, after any arrow keys and
\* mouse clicks button_index is within 0..len(buttons)-1: down and right move
\* it to the next index, from the last to 0, up and left to the index before,
\* from 0 to the last; RETURN and SPACE call a button of the list.
C20_ButtonIndexInRange ==
    Len(buttons) >= 1
        => /\ 0 <= button_index /\ button_index < Len(buttons)
           /\ \A k \in 1..Len(activated) :
                 0 <= activated[k] /\ activated[k] < Len(buttons)
           /\ run_pc \notin {"IndexError", "ZeroDivisionError"}
           /\ \A k \in {"K_DOWN", "K_RIGHT"} :
                 MenuKeyDown(MenuHere, KeyDownOf(k)).button_index
                     = IF button_index = Len(buttons) - 1 THEN 0
                       ELSE button_index + 1
           /\ \A k \in {"K_UP", "K_LEFT"} :
                 MenuKeyDown(MenuHere, KeyDownOf(k)).button_index
                     = IF button_index = 0 THEN Len(buttons) - 1
                       ELSE button_index - 1
           /\ \A k \in {"K_RETURN", "K_SPACE"} :
                 MenuKeyDown(MenuHere, KeyDownOf(k)).activated = <<button_index>>

\* C20 witness: in a menu of two buttons, the first selected, the up key has
\* moved the index from 0 to the last button.
C20_Witness ==
    /\ Len(buttons) = 2 /\ iteration = 1
    /\ log = <<"while", "handle_event KEYDOWN K_UP">>
    /\ button_index = 1

====
